---------------------------- MODULE Spec2Model ----------------------------
(***************************************************************************)
(* A model of tnguyen91/dictionary-api: the DefinitionFetcher of           *)
(* src/fetch_definitions.py (three source clients and the aggregator) and  *)
(* the FastAPI shell of src/app.py (startup checks, the define handler and *)
(* its optional Redis cache).                                              *)
(*                                                                         *)
(* Python values are represented as follows.                               *)
(*   str            a TLA+ string                                          *)
(*   Optional[x]    <<>> for None, <<x>> for a value                       *)
(*   list           a sequence                                             *)
(*   dict           a record / a function over the keys that are present   *)
(***************************************************************************)
EXTENDS Integers, Sequences, FiniteSets, TLC

None == <<>>
Some(x) == <<x>>

\* What a call hands on: the value it returned, or the exception it raised.
Returned(v) == [raised |-> FALSE, value |-> v]
Raised == [raised |-> TRUE, value |-> <<>>]

-----------------------------------------------------------------------------
(* String helpers: the str methods and the regular expressions the code    *)
(* uses, computed character by character.                                  *)

UpperAlpha == "ABCDEFGHIJKLMNOPQRSTUVWXYZ"
LowerAlpha == "abcdefghijklmnopqrstuvwxyz"

CharAt(s, i) == SubSeq(s, i, i)

AlphaIndex(alpha, c) ==
    IF \E i \in 1..26 : CharAt(alpha, i) = c
    THEN CHOOSE i \in 1..26 : CharAt(alpha, i) = c
    ELSE 0

LowerChar(c) ==
    IF AlphaIndex(UpperAlpha, c) = 0 THEN c
    ELSE CharAt(LowerAlpha, AlphaIndex(UpperAlpha, c))

UpperChar(c) ==
    IF AlphaIndex(LowerAlpha, c) = 0 THEN c
    ELSE CharAt(UpperAlpha, AlphaIndex(LowerAlpha, c))

RECURSIVE Lower(_)
\* str.lower()
Lower(s) == IF s = "" THEN "" ELSE LowerChar(CharAt(s, 1)) \o Lower(Tail(s))

\* str.capitalize(): first character upper-cased, the rest lower-cased
Capitalize(s) == IF s = "" THEN "" ELSE UpperChar(CharAt(s, 1)) \o Lower(Tail(s))

IsWs(c) == c \in {" ", "\t", "\n"}

\* the number of leading whitespace characters of s
LeadingWs(s) ==
    CHOOSE n \in 0..Len(s) :
        /\ \A j \in 1..n : IsWs(CharAt(s, j))
        /\ (n = Len(s) \/ ~IsWs(CharAt(s, n + 1)))

\* the number of trailing whitespace characters of s
TrailingWs(s) ==
    CHOOSE n \in 0..Len(s) :
        /\ \A j \in 1..n : IsWs(CharAt(s, Len(s) + 1 - j))
        /\ (n = Len(s) \/ ~IsWs(CharAt(s, Len(s) - n)))

\* str.strip()
Strip(s) ==
    IF LeadingWs(s) = Len(s) THEN ""
    ELSE SubSeq(s, LeadingWs(s) + 1, Len(s) - TrailingWs(s))

RECURSIVE CollapseWs(_)
\* re.sub(r'\s+', ' ', s): every maximal run of whitespace becomes one space.
\* Computed by halving, so that long texts do not nest deeply.
CollapseWs(s) ==
    IF Len(s) = 0 THEN ""
    ELSE IF Len(s) = 1 THEN (IF IsWs(s) THEN " " ELSE s)
    ELSE LET h == Len(s) \div 2
             l == CollapseWs(SubSeq(s, 1, h))
             r == CollapseWs(SubSeq(s, h + 1, Len(s)))
         IN  IF CharAt(l, Len(l)) = " " /\ CharAt(r, 1) = " "
             THEN l \o Tail(r)
             ELSE l \o r

\* the positions at which marker m occurs in s
Occurrences(s, m) ==
    {i \in 1..(Len(s) - Len(m) + 1) : SubSeq(s, i, i + Len(m) - 1) = m}

\* re.sub(m + r'.*$', '', s) for a literal marker m and a text without line
\* breaks: the text is cut at the first occurrence of the marker.
CutFrom(s, m) ==
    IF Occurrences(s, m) = {} THEN s
    ELSE LET i == CHOOSE k \in Occurrences(s, m) : \A j \in Occurrences(s, m) : k <= j
         IN  SubSeq(s, 1, i - 1)

\* s[:n]
Truncate(s, n) == IF Len(s) <= n THEN s ELSE SubSeq(s, 1, n)

\* s.lower().startswith(p.lower() + ' '); lower() keeps the length, so only
\* the first len(p) + 1 characters of s are lowered.
StartsWithWord(s, p) ==
    /\ Len(s) >= Len(p) + 1
    /\ Lower(SubSeq(s, 1, Len(p) + 1)) = Lower(p) \o " "

\* if text.lower().startswith(word.lower() + ' '): text = text[len(word):].strip()
StripLeadingWord(text, word) ==
    IF StartsWithWord(text, word)
    THEN Strip(SubSeq(text, Len(word) + 1, Len(text)))
    ELSE text

-----------------------------------------------------------------------------
(* fetch_easton_definition.  An HTTP exchange is a record                  *)
(*   [kind |-> "error"]                      the GET raised (network error, *)
(*                                           timeout)                      *)
(*   [kind |-> "http", status, page]         a response arrived            *)
(* and a parsed page is [blocks |-> f], f mapping each element that        *)
(* BeautifulSoup can select (by one of the content selectors, or "body")   *)
(* to the sequence of its child nodes [tag, text] in document order.       *)

ParagraphMinLen == 30
ResultMinLen == 20
FallbackMinLen == 50
FallbackMaxLen == 500

content_selectors ==
    << "div.resource-content", "div.content-wrapper", "div.definition",
       "div.entry-content", "main", "article" >>

UnwantedTags == {"nav", "header", "footer", "aside", "script", "style"}

TrailerSite == "BibleGateway.com"
TrailerCopyright == "Copyright"
TrailerRights == "All rights reserved"

\* lines 60-67: the first selector that matches, else the body, else nothing
SelectContent(page) ==
    LET hits == {i \in 1..Len(content_selectors) :
                    content_selectors[i] \in DOMAIN page.blocks}
    IN  IF hits # {}
        THEN Some(page.blocks[content_selectors[
                 CHOOSE i \in hits : \A j \in hits : i <= j]])
        ELSE IF "body" \in DOMAIN page.blocks
        THEN Some(page.blocks["body"])
        ELSE None

IsWanted(node) == node.tag \notin UnwantedTags

\* lines 70-71: decompose() every unwanted element of the block
Decompose(nodes) == SelectSeq(nodes, IsWanted)

IsParagraph(node) == node.tag = "p"

RECURSIVE JoinTexts(_)
\* get_text(separator=' ', strip=True): the stripped, non-empty strings of
\* the nodes joined by one space
JoinTexts(nodes) ==
    IF nodes = <<>> THEN ""
    ELSE LET h == Strip(Head(nodes).text)
             t == JoinTexts(Tail(nodes))
         IN  IF h = "" THEN t
             ELSE IF t = "" THEN h
             ELSE h \o " " \o t

\* lines 77-83: what the paragraph path makes of a paragraph's text
CleanParagraph(ptext, word) ==
    LET t0 == Strip(CollapseWs(ptext))
        t1 == CutFrom(t0, TrailerSite)
        t2 == CutFrom(t1, TrailerCopyright)
        t3 == CutFrom(t2, TrailerRights)
    IN  StripLeadingWord(t3, word)

RECURSIVE ScanParagraphs(_, _)
\* lines 74-86: the first paragraph longer than 30 characters whose cleaned
\* text is longer than 20 characters wins
ScanParagraphs(paragraphs, word) ==
    IF paragraphs = <<>> THEN None
    ELSE LET ptext == Strip(Head(paragraphs).text)
             text == CleanParagraph(ptext, word)
         IN  IF Len(ptext) > ParagraphMinLen /\ Len(text) > ResultMinLen
             THEN Some(text)
             ELSE ScanParagraphs(Tail(paragraphs), word)

\* lines 90-93: what the fallback path makes of the block's text
CleanFallback(div_text, word) ==
    LET t0 == Truncate(CollapseWs(div_text), FallbackMaxLen)
        t1 == CutFrom(t0, TrailerSite)
    IN  StripLeadingWord(t1, word)

\* lines 88-94, then line 96
FallbackText(nodes, word) ==
    LET div_text == JoinTexts(nodes)
    IN  IF Len(div_text) > FallbackMinLen
        THEN Some(CleanFallback(div_text, word))
        ELSE None

\* lines 49-96: the extractor applied to a parsed page
ExtractEaston(page, word) ==
    IF SelectContent(page) = None THEN None
    ELSE LET nodes == Decompose(SelectContent(page)[1])
             hit == ScanParagraphs(SelectSeq(nodes, IsParagraph), word)
         IN  IF hit # None THEN hit ELSE FallbackText(nodes, word)

\* lines 43-96, the try block.  The GET is issued for word.capitalize(); the
\* exchange is passed in.
EastonBody(word, exchange) ==
    IF exchange.kind = "error" THEN Raised                 \* get() raised
    ELSE IF exchange.status >= 400 THEN Raised             \* raise_for_status()
    ELSE IF exchange.status = 200
         THEN Returned(ExtractEaston(exchange.page, word))
    ELSE Returned(None)

\* lines 41-100: except Exception: return None
fetch_easton_definition(word, exchange) ==
    LET body == EastonBody(word, exchange)
    IN  IF body.raised THEN Returned(None) ELSE body

-----------------------------------------------------------------------------
(* fetch_wordnet_definitions.  A lookup in the lexical database is         *)
(*   [kind |-> "error"]                 wordnet.synsets() raised           *)
(*   [kind |-> "ok", synsets |-> seq]   the synsets [pos, definition]      *)

\* lines 108-110: pos_map.get(pos, pos)
pos_map(pos) ==
    CASE pos = "n" -> "noun"
      [] pos = "v" -> "verb"
      [] pos = "a" -> "adjective"
      [] pos = "s" -> "adjective satellite"
      [] pos = "r" -> "adverb"
      [] OTHER -> pos

\* line 111
FormatSense(synset) == pos_map(synset.pos) \o ": " \o synset.definition

\* lines 104-113, the try block.  The lookup is made for word.lower(); its
\* outcome is passed in.
WordnetBody(word, lookup) ==
    IF lookup.kind = "error" THEN Raised
    ELSE Returned([i \in 1..Len(lookup.synsets) |-> FormatSense(lookup.synsets[i])])

\* fetch_wordnet_definitions without its except clause
fetch_wordnet_definitions_uncaught(word, lookup) == WordnetBody(word, lookup)

\* lines 102-117: except Exception: return []
fetch_wordnet_definitions(word, lookup) ==
    LET body == WordnetBody(word, lookup)
    IN  IF body.raised THEN Returned(<<>>) ELSE body

-----------------------------------------------------------------------------
(* fetch_merriam_pronunciation.  An exchange with the provider is          *)
(*   [kind |-> "error"]                    the GET raised                  *)
(*   [kind |-> "http", status, data]       a response arrived; data is the *)
(*                                         decoded body:                   *)
(*       [type |-> "invalid"]              r.json() raises                 *)
(*       [type |-> "dict"] / [type |-> "null"]   not a list                *)
(*       [type |-> "list", items |-> seq]  items are [type |-> "str"] or   *)
(*                                         [type |-> "dict", hwi |-> ...]  *)
(* hwi is Optional[[prs : Optional[seq of pronunciation items]]], and a    *)
(* pronunciation item is [type |-> "str"] (malformed) or                   *)
(* [type |-> "dict", mw : Optional[str], sound : Optional[[audio :         *)
(* Optional[str]]]].                                                       *)

AudioUrlPrefix == "https://media.merriam-webster.com/audio/prons/en/us/mp3/"

\* Python truthiness of an Optional[str]
Truthy(opt) == opt # None /\ opt[1] # ""

\* line 151: the client issues a GET only when it was given a key
MerriamIssuesGet(api_key) == Truthy(api_key)

EmptyDict == [keys |-> {}, phonetics |-> <<>>]

\* lines 161-165: the first element of the list that is a dict
FirstDict(items) ==
    LET hits == {i \in 1..Len(items) : items[i].type = "dict"}
    IN  IF hits = {} THEN None
        ELSE Some(items[CHOOSE i \in hits : \A j \in hits : i <= j])

\* lines 176-181: the audio URL of a pronunciation item, or None
AudioUrl(p) ==
    IF p.sound = None THEN None
    ELSE IF ~Truthy(p.sound[1].audio) THEN None
    ELSE LET audio_file == p.sound[1].audio[1]
         IN  Some(AudioUrlPrefix \o CharAt(audio_file, 1) \o "/"
                    \o audio_file \o ".mp3")

\* lines 182-186: the dict built for a pronunciation item; it has the key
\* "text" when a respelling is given and "audio" when a sound file is.
PhoneticItem(p) ==
    [k \in (IF Truthy(p.mw) THEN {"text"} ELSE {})
            \cup (IF AudioUrl(p) # None THEN {"audio"} ELSE {})
        |-> IF k = "text" THEN p.mw[1] ELSE AudioUrl(p)[1]]

\* EmitsItem without the test of line 187: every item is appended
EmitsItemAlways(p) == TRUE

\* lines 187-188: if item: phonetics.append(item)
EmitsItem(p) == DOMAIN PhoneticItem(p) # {}

RECURSIVE BuildPhonetics(_)
\* lines 172-188: the loop over prs
BuildPhonetics(prs) ==
    IF prs = <<>> THEN <<>>
    ELSE IF EmitsItem(Head(prs))
         THEN <<PhoneticItem(Head(prs))>> \o BuildPhonetics(Tail(prs))
         ELSE BuildPhonetics(Tail(prs))

\* lines 169-170: entry.get('hwi', {}).get('prs', [])
PrsOf(entry) ==
    IF entry.hwi = None THEN <<>>
    ELSE IF entry.hwi[1].prs = None THEN <<>>
    ELSE entry.hwi[1].prs[1]

\* p.get(...) raises AttributeError on an item that is not a dict
PrsMalformed(prs) == \E i \in 1..Len(prs) : prs[i].type # "dict"

\* line 166: if not entry (an empty dict is falsy)
IsEmptyEntry(entry) == entry.hwi = None /\ ~entry.other

\* lines 151-191, the try block.  The GET is issued for the word as given;
\* the exchange is passed in.
MerriamBody(word, api_key, exchange) ==
    IF ~Truthy(api_key) THEN Returned(EmptyDict)
    ELSE IF exchange.kind = "error" THEN Raised            \* get() raised
    ELSE IF exchange.status >= 400 THEN Raised             \* raise_for_status()
    ELSE IF exchange.data.type = "invalid" THEN Raised     \* r.json() raised
    ELSE IF exchange.data.type # "list" THEN Returned(EmptyDict)
    ELSE IF exchange.data.items = <<>> THEN Returned(EmptyDict)
    ELSE IF FirstDict(exchange.data.items) = None THEN Returned(EmptyDict)
    ELSE IF IsEmptyEntry(FirstDict(exchange.data.items)[1]) THEN Returned(EmptyDict)
    ELSE LET prs == PrsOf(FirstDict(exchange.data.items)[1])
         IN  IF PrsMalformed(prs) THEN Raised              \* p.get raised
             ELSE Returned([keys |-> {"phonetics"},
                            phonetics |-> BuildPhonetics(prs)])

\* lines 149-193: except Exception: return {}
fetch_merriam_pronunciation(word, api_key, exchange) ==
    LET body == MerriamBody(word, api_key, exchange)
    IN  IF body.raised THEN Returned(EmptyDict) ELSE body

\* merriam.get('phonetics')
GetPhonetics(merriam) ==
    IF "phonetics" \in merriam.keys THEN merriam.phonetics ELSE <<>>

-----------------------------------------------------------------------------
(* fetch_definitions: the aggregator.                                      *)

\* lines 122-126
NewResult(word) ==
    [word |-> word,
     pronunciation |-> [keys |-> {"phonetics"}, phonetics |-> <<>>],
     definitions |-> [wordnet |-> <<>>, easton |-> None]]

\* AdoptPronunciation without the test of line 130: whatever the client
\* returned replaces the default
AdoptPronunciationUnchecked(result, merriam) ==
    [result EXCEPT !.pronunciation = merriam]

\* lines 130-131: if merriam and merriam.get('phonetics')
AdoptPronunciation(result, merriam) ==
    IF merriam.keys # {} /\ GetPhonetics(merriam) # <<>>
    THEN [result EXCEPT !.pronunciation = merriam]
    ELSE result

\* lines 135-136: if wordnet_defs
AdoptWordnet(result, wordnet_defs) ==
    IF wordnet_defs # <<>>
    THEN [result EXCEPT !.definitions.wordnet = wordnet_defs]
    ELSE result

\* lines 142-143: if easton_def
AdoptEaston(result, easton_def) ==
    IF Truthy(easton_def)
    THEN [result EXCEPT !.definitions.easton = easton_def]
    ELSE result

\* What each client is given by the outside world for a word: the provider
\* is asked for the word as written, the database for word.lower() and the
\* dictionary site for word.capitalize().
MerriamExchange(up, word) == up.merriam[word]
WordnetLookup(up, word) == up.wordnet[Lower(word)]
EastonExchange(up, word) == up.easton[Capitalize(word)]

\* lines 119-147 as one function of the word, the key and the outside world
fetch_definitions(word, key, up) ==
    AdoptEaston(
        AdoptWordnet(
            AdoptPronunciation(
                NewResult(word),
                fetch_merriam_pronunciation(word, key, MerriamExchange(up, word)).value),
            fetch_wordnet_definitions(word, WordnetLookup(up, word)).value),
        fetch_easton_definition(word, EastonExchange(up, word)).value)

-----------------------------------------------------------------------------
(* The inputs the model draws from.                                        *)

MaxPrs == 2
MaxNodes == 2

RECURSIVE Repeat(_, _)
Repeat(s, n) == IF n = 0 THEN "" ELSE s \o Repeat(s, n - 1)

RECURSIVE SeqsUpTo(_, _)
\* the sequences over S of length at most n
SeqsUpTo(S, n) ==
    IF n = 0 THEN {<<>>}
    ELSE SeqsUpTo(S, n - 1)
            \cup {Append(q, x) : q \in {t \in SeqsUpTo(S, n - 1) : Len(t) = n - 1}, x \in S}

TextShort == "Short text."
TextExample == "test means something long enough to qualify for return, over thirty chars."
TextBoiler == "See also the index. Copyright 2020 by Example Press."
TextPlain == "Test is a word with a fairly long plain description in it."
TextSite == "An entry describing the term at some length. BibleGateway.com is a site."
TextCopyright == "An entry describing the term at some length. Copyright 2020 Example."
TextRights == "An entry describing the term at some length. All rights reserved by us."
TextSpaced == "A    middling    entry    with    wide    gaps    in    it."
TextLong == Repeat("lorem ", 82) \o "BibleGateway.com and more after it"

NodeTexts ==
    {TextShort, TextExample, TextBoiler, TextPlain, TextSite, TextCopyright,
     TextRights, TextSpaced, TextLong}

NodeTags == {"p", "div", "nav"}

Nodes == [tag : NodeTags, text : NodeTexts]

Pages ==
    {[blocks |-> <<>>]}
        \cup {[blocks |-> (sel :> nodes)] :
                sel \in {"body", "main"}, nodes \in SeqsUpTo(Nodes, MaxNodes)}
        \cup {[blocks |-> ("body" :> <<[tag |-> "p", text |-> TextExample]>>)
                            @@ ("article" :> <<[tag |-> "div", text |-> TextPlain]>>)]}

NoPage == [blocks |-> <<>>]

EastonProbeExchanges ==
    {[kind |-> "error"]}
        \cup {[kind |-> "http", status |-> st, page |-> NoPage] : st \in {204, 404}}
        \cup {[kind |-> "http", status |-> 200, page |-> pg] : pg \in Pages}

PrItems ==
    {[type |-> "str"]}
        \cup [type : {"dict"},
              mw : {None, Some(""), Some("test")},
              sound : {None, Some([audio |-> None]), Some([audio |-> Some("")]),
                       Some([audio |-> Some("test01")])}]

Entries ==
    {[type |-> "dict", other |-> o, hwi |-> None] : o \in BOOLEAN}
        \cup {[type |-> "dict", other |-> TRUE, hwi |-> Some([prs |-> None])]}
        \cup {[type |-> "dict", other |-> TRUE, hwi |-> Some([prs |-> Some(prs)])] :
                prs \in SeqsUpTo(PrItems, MaxPrs)}

MerriamProbeExchanges ==
    {[kind |-> "error"]}
        \cup {[kind |-> "http", status |-> 500, data |-> [type |-> "invalid"]]}
        \cup {[kind |-> "http", status |-> 200, data |-> [type |-> t]] :
                t \in {"invalid", "dict", "null"}}
        \cup {[kind |-> "http", status |-> 200, data |-> [type |-> "list", items |-> <<>>]]}
        \cup {[kind |-> "http", status |-> 200,
               data |-> [type |-> "list", items |-> <<[type |-> "str"]>>]]}
        \cup {[kind |-> "http", status |-> 200,
               data |-> [type |-> "list", items |-> <<[type |-> "str"], e>>]] :
                e \in Entries}

\* The exchanges the aggregator and the server are run against.
MerriamFound ==
    [kind |-> "http", status |-> 200,
     data |-> [type |-> "list",
               items |-> <<[type |-> "dict", other |-> TRUE,
                            hwi |-> Some([prs |-> Some(<<
                                [type |-> "dict", mw |-> Some("test"),
                                 sound |-> Some([audio |-> Some("test01")])]>>)])]>>]]

MerriamSuggestions ==
    [kind |-> "http", status |-> 200,
     data |-> [type |-> "list", items |-> <<[type |-> "str"]>>]]

MerriamSamples == {[kind |-> "error"], MerriamSuggestions, MerriamFound}

WordnetSamples ==
    {[kind |-> "error"],
     [kind |-> "ok", synsets |-> <<>>],
     [kind |-> "ok", synsets |-> <<[pos |-> "n", definition |-> "a trial"],
                                   [pos |-> "x", definition |-> "to try"]>>]}

EastonFound ==
    [kind |-> "http", status |-> 200,
     page |-> [blocks |-> ("main" :> <<[tag |-> "p", text |-> TextExample]>>)]]

EastonSamples ==
    {[kind |-> "error"],
     [kind |-> "http", status |-> 404, page |-> NoPage],
     [kind |-> "http", status |-> 200, page |-> NoPage],
     EastonFound}

\* A source failed: its try block raised (network error, timeout, non-2xx
\* status, malformed payload).
MerriamFailed(word, key, up) == MerriamBody(word, key, MerriamExchange(up, word)).raised
WordnetFailed(word, up) == WordnetBody(word, WordnetLookup(up, word)).raised
EastonFailed(word, up) == EastonBody(word, EastonExchange(up, word)).raised

Words == {"test", "Test", " ", ""}
LowerWords == {Lower(w) : w \in Words}
CapWords == {Capitalize(w) : w \in Words}

\* word is empty or whitespace only
IsInvalidWord(word) == Strip(word) = ""

\* Outside worlds in which every word gets the same answers.
UniformWorlds ==
    {[merriam |-> [w \in Words |-> m],
      wordnet |-> [w \in LowerWords |-> n],
      easton |-> [w \in CapWords |-> e]] :
        m \in MerriamSamples, n \in WordnetSamples, e \in EastonSamples}

-----------------------------------------------------------------------------
VARIABLES
    env,            \* os.environ: MERRIAM_KEY, ALLOW_STARTUP_WITHOUT_KEY, CACHE_URL
    upstream,       \* what the provider, the database and the site answer
    phase,          \* the application: "off", "boot", "ping", "serving", "failed"
    ready,          \* app.state.ready
    redis_client,   \* the module global of app.py: None or Some("client")
    redisUp,        \* whether the Redis server can be reached
    cache,          \* the content of the Redis server: key -> Optional[text]
    reqs,           \* the define coroutines, one per slot
    issued,         \* the number of define requests received so far
    live,           \* per word, the live result a request for it last stored
    fetch,          \* the activation of fetch_definitions, if one is running
    probe           \* a single client call, for the checks of the clients

appVars == <<env, phase, ready, redis_client, redisUp, cache, reqs, issued, live>>
vars == <<env, upstream, phase, ready, redis_client, redisUp, cache, reqs, issued,
          live, fetch, probe>>

SourceOrder == <<"merriam", "wordnet", "easton">>

FetchIdle == [pc |-> "idle"]
ProbeIdle == [pc |-> "idle"]

\* fetch_definitions(word, key) is called on behalf of `owner`
Activation(word, key, owner) ==
    [pc |-> "called", word |-> word, key |-> key, owner |-> owner,
     result |-> NewResult(word), calls |-> <<>>, gets |-> <<>>]

\* lines 120-126: the result is created with its defaults
FetchBegin ==
    /\ fetch.pc = "called"
    /\ fetch' = [fetch EXCEPT !.pc = "merriam", !.result = NewResult(fetch.word)]
    /\ UNCHANGED <<appVars, upstream, probe>>

\* lines 128-131: the pronunciation client is called once; an exception that
\* escaped it would escape fetch_definitions
FetchPron ==
    /\ fetch.pc = "merriam"
    /\ LET r == fetch_merriam_pronunciation(fetch.word, fetch.key,
                                            MerriamExchange(upstream, fetch.word))
       IN  fetch' = [fetch EXCEPT
                !.pc = IF r.raised THEN "raised" ELSE "wordnet",
                !.calls = Append(@, "merriam"),
                !.gets = IF MerriamIssuesGet(fetch.key) THEN Append(@, "merriam") ELSE @,
                !.result = IF r.raised THEN @ ELSE AdoptPronunciation(@, r.value)]
    /\ UNCHANGED <<appVars, upstream, probe>>

\* FetchWordnet returning early when the database has nothing
FetchWordnetReturnsEarly ==
    /\ fetch.pc = "wordnet"
    /\ LET r == fetch_wordnet_definitions(fetch.word, WordnetLookup(upstream, fetch.word))
       IN  fetch' = [fetch EXCEPT
                !.pc = IF r.value = <<>> THEN "done" ELSE "easton",
                !.calls = Append(@, "wordnet"),
                !.gets = Append(@, "wordnet"),
                !.result = AdoptWordnet(@, r.value)]
    /\ UNCHANGED <<appVars, upstream, probe>>

\* lines 133-138: the database client is called once
FetchWordnet ==
    /\ fetch.pc = "wordnet"
    /\ LET r == fetch_wordnet_definitions(fetch.word, WordnetLookup(upstream, fetch.word))
       IN  fetch' = [fetch EXCEPT
                !.pc = IF r.raised THEN "raised" ELSE "easton",
                !.calls = Append(@, "wordnet"),
                !.gets = Append(@, "wordnet"),
                !.result = IF r.raised THEN @ ELSE AdoptWordnet(@, r.value)]
    /\ UNCHANGED <<appVars, upstream, probe>>

\* lines 140-147: the site client is called once and the result is returned
FetchEaston ==
    /\ fetch.pc = "easton"
    /\ LET r == fetch_easton_definition(fetch.word, EastonExchange(upstream, fetch.word))
       IN  fetch' = [fetch EXCEPT
                !.pc = IF r.raised THEN "raised" ELSE "done",
                !.calls = Append(@, "easton"),
                !.gets = Append(@, "easton"),
                !.result = IF r.raised THEN @ ELSE AdoptEaston(@, r.value)]
    /\ UNCHANGED <<appVars, upstream, probe>>

AppOff ==
    /\ env = [MERRIAM_KEY |-> None, ALLOW_STARTUP_WITHOUT_KEY |-> FALSE, CACHE_URL |-> None]
    /\ phase = "off"
    /\ ready = FALSE
    /\ redis_client = None
    /\ redisUp = FALSE
    /\ cache = <<>>
    /\ reqs = <<>>
    /\ issued = 0
    /\ live = <<>>

-----------------------------------------------------------------------------
(* fetch_definitions called directly (as main() does), for every word, key *)
(* and combination of source outcomes.                                     *)

InitFetch ==
    /\ AppOff
    /\ upstream \in UniformWorlds
    /\ \E w \in Words, k \in {None, Some("k")} : fetch = Activation(w, k, 0)
    /\ probe = ProbeIdle

NextFetch == FetchBegin \/ FetchPron \/ FetchWordnet \/ FetchEaston

SpecFetch == InitFetch /\ [][NextFetch]_vars

-----------------------------------------------------------------------------
(* One call of fetch_merriam_pronunciation on a provider response.         *)

InitPron ==
    /\ AppOff
    /\ upstream = <<>>
    /\ fetch = FetchIdle
    /\ \E k \in {None, Some("k")}, x \in MerriamProbeExchanges :
          probe = [pc |-> "call", fn |-> "merriam", word |-> "test",
                   api_key |-> k, exchange |-> x]

ProbeMerriam ==
    /\ probe.pc = "call"
    /\ probe.fn = "merriam"
    /\ probe' = [pc |-> "returned", fn |-> probe.fn, word |-> probe.word,
                 api_key |-> probe.api_key, exchange |-> probe.exchange,
                 out |-> fetch_merriam_pronunciation(probe.word, probe.api_key,
                                                     probe.exchange),
                 result |-> AdoptPronunciation(
                                NewResult(probe.word),
                                fetch_merriam_pronunciation(probe.word, probe.api_key,
                                                            probe.exchange).value)]
    /\ UNCHANGED <<appVars, upstream, fetch>>

NextPron == ProbeMerriam

SpecPron == InitPron /\ [][NextPron]_vars

-----------------------------------------------------------------------------
(* One call of fetch_easton_definition on a page.                          *)

InitEaston ==
    /\ AppOff
    /\ upstream = <<>>
    /\ fetch = FetchIdle
    /\ \E w \in {"test"}, x \in EastonProbeExchanges :
          probe = [pc |-> "call", fn |-> "easton", word |-> w, exchange |-> x]

ProbeEaston ==
    /\ probe.pc = "call"
    /\ probe.fn = "easton"
    /\ probe' = [pc |-> "returned", fn |-> probe.fn, word |-> probe.word,
                 exchange |-> probe.exchange,
                 out |-> fetch_easton_definition(probe.word, probe.exchange)]
    /\ UNCHANGED <<appVars, upstream, fetch>>

NextEaston == ProbeEaston

SpecEaston == InitEaston /\ [][NextEaston]_vars

-----------------------------------------------------------------------------
(* json.dumps / json.loads of a result.  A JSON text is represented by its *)
(* syntax tree: [t |-> "null"], [t |-> "str", v |-> s], [t |-> "arr",      *)
(* v |-> seq] and [t |-> "obj", v |-> seq of [k, v]] with the members in   *)
(* the order the dict holds them.                                          *)

JNull == [t |-> "null"]
JStr(x) == [t |-> "str", v |-> x]
JArr(q) == [t |-> "arr", v |-> q]
JObj(q) == [t |-> "obj", v |-> q]

JMember(k, v) == [k |-> k, v |-> v]

\* a phonetic entry: its keys in insertion order, "text" before "audio"
DumpItem(e) ==
    JObj((IF "text" \in DOMAIN e THEN <<JMember("text", JStr(e.text))>> ELSE <<>>)
         \o (IF "audio" \in DOMAIN e THEN <<JMember("audio", JStr(e["audio"]))>> ELSE <<>>))

DumpPronunciation(pr) ==
    JObj(IF "phonetics" \in pr.keys
         THEN <<JMember("phonetics",
                        JArr([i \in 1..Len(pr.phonetics) |-> DumpItem(pr.phonetics[i])]))>>
         ELSE <<>>)

\* app.py line 88: json.dumps(result, ensure_ascii=False)
json_dumps(result) ==
    JObj(<< JMember("word", JStr(result.word)),
            JMember("pronunciation", DumpPronunciation(result.pronunciation)),
            JMember("definitions",
                JObj(<< JMember("wordnet",
                            JArr([i \in 1..Len(result.definitions.wordnet) |->
                                    JStr(result.definitions.wordnet[i])])),
                        JMember("easton",
                            IF result.definitions.easton = None THEN JNull
                            ELSE JStr(result.definitions.easton[1])) >>)) >>)

HasMember(obj, k) == \E i \in 1..Len(obj.v) : obj.v[i].k = k
Member(obj, k) == obj.v[CHOOSE i \in 1..Len(obj.v) : obj.v[i].k = k].v

LoadItem(obj) ==
    [k \in {obj.v[i].k : i \in 1..Len(obj.v)} |-> Member(obj, k).v]

LoadPronunciation(obj) ==
    IF HasMember(obj, "phonetics")
    THEN [keys |-> {"phonetics"},
          phonetics |-> [i \in 1..Len(Member(obj, "phonetics").v) |->
                            LoadItem(Member(obj, "phonetics").v[i])]]
    ELSE EmptyDict

\* app.py line 81: json.loads(cached)
json_loads(doc) ==
    [word |-> Member(doc, "word").v,
     pronunciation |-> LoadPronunciation(Member(doc, "pronunciation")),
     definitions |->
        [wordnet |-> [i \in 1..Len(Member(Member(doc, "definitions"), "wordnet").v) |->
                        Member(Member(doc, "definitions"), "wordnet").v[i].v],
         easton |-> IF Member(Member(doc, "definitions"), "easton").t = "null" THEN None
                    ELSE Some(Member(Member(doc, "definitions"), "easton").v)]]

-----------------------------------------------------------------------------
(* app.py: startup_checks and the define handler.                          *)

MaxConcurrent == 2
MaxRequests == 3

Slots == 1..MaxConcurrent

\* the words a request path can carry: the route does not match an empty one
RouteWords == Words \ {""}

\* app.py line 77
cache_key(word) == "define:" \o Lower(word)

CacheKeys == {cache_key(w) : w \in RouteWords}

KeyMissingDetail == "MERRIAM_KEY not configured on server"
RedisErrorDetail == "Error connecting to Redis"

FreeSlot == [pc |-> "free"]

\* a coroutine of define(word) at its first line
NewRequest(word) ==
    [pc |-> "start", word |-> word, io |-> <<>>, hit |-> FALSE, cacheFailed |-> FALSE,
     expect |-> live[word], result |-> NewResult(word),
     status |-> 0, detail |-> "", body |-> NewResult(word)]

\* return <result>: the response is 200 with the result as its body
Respond(q, result) ==
    [q EXCEPT !.pc = "done", !.status = 200, !.body = result]

\* raise HTTPException(status_code=500, detail=...)
Fail(q, detail) ==
    [q EXCEPT !.pc = "done", !.status = 500, !.detail = detail]

\* The coroutine of slot r moves on to q.  A response is kept in its slot for
\* the properties to read until the next response is sent.
Put(r, q) ==
    [s \in Slots |->
        IF s = r THEN q
        ELSE IF q.pc = "done" /\ reqs[s].pc = "done" THEN FreeSlot
        ELSE reqs[s]]

\* StartupChecks without the test of line 45: the application comes up
\* whether or not a key is configured
StartupChecksWithoutKeyTest ==
    /\ phase = "boot"
    /\ ready' = TRUE
    /\ IF Truthy(env.CACHE_URL)
       THEN \E made \in BOOLEAN :
               /\ redis_client' = IF made THEN Some("client") ELSE None
               /\ phase' = IF made THEN "ping" ELSE "serving"
       ELSE /\ redis_client' = redis_client
            /\ phase' = "serving"
    /\ UNCHANGED <<env, upstream, redisUp, cache, reqs, issued, live, fetch, probe>>

\* lines 42-56.  Without a key and without the override the startup raises
\* and the application does not come up.  Otherwise ready is set, and with a
\* CACHE_URL the client is created and bound to the global before the ping;
\* `made` is whether the import and from_url succeeded.
StartupChecks ==
    /\ phase = "boot"
    /\ IF ~Truthy(env.MERRIAM_KEY) /\ ~env.ALLOW_STARTUP_WITHOUT_KEY
       THEN /\ phase' = "failed"
            /\ UNCHANGED <<ready, redis_client>>
       ELSE /\ ready' = TRUE
            /\ IF Truthy(env.CACHE_URL)
               THEN \E made \in BOOLEAN :
                       /\ redis_client' = IF made THEN Some("client") ELSE None
                       /\ phase' = IF made THEN "ping" ELSE "serving"
               ELSE /\ redis_client' = redis_client
                    /\ phase' = "serving"
    /\ UNCHANGED <<env, upstream, redisUp, cache, reqs, issued, live, fetch, probe>>

\* lines 57-61: await redis_client.ping(); a failure is logged and swallowed,
\* and the global keeps the client
StartupPing ==
    /\ phase = "ping"
    /\ phase' = "serving"
    /\ UNCHANGED <<env, upstream, ready, redis_client, redisUp, cache, reqs, issued,
                   live, fetch, probe>>

\* The event loop runs one coroutine at a time, and fetch_definitions is a
\* synchronous call: while it runs no coroutine is resumed.
LoopFree == fetch.pc = "idle"

\* lines 70-79: a request arrives; the key is checked, then either the cache
\* is asked (await get) or fetch_definitions is called.  A slot only names a
\* coroutine: the request takes the first slot whose coroutine has finished.
DefineStart(r, w) ==
    /\ phase = "serving"
    /\ LoopFree
    /\ reqs[r].pc \in {"free", "done"}
    /\ \A q \in Slots : reqs[q].pc \in {"free", "done"} => r <= q
    /\ issued < MaxRequests
    /\ issued' = issued + 1
    /\ IF ~Truthy(env.MERRIAM_KEY)
       THEN /\ reqs' = Put(r, Fail(NewRequest(w), KeyMissingDetail))
            /\ fetch' = fetch
       ELSE IF redis_client # None
       THEN /\ reqs' = Put(r, [NewRequest(w) EXCEPT !.pc = "get", !.io = <<"cache.get">>])
            /\ fetch' = fetch
       ELSE /\ reqs' = Put(r, [NewRequest(w) EXCEPT !.pc = "fetch"])
            /\ fetch' = Activation(w, env.MERRIAM_KEY, r)
    /\ UNCHANGED <<env, upstream, phase, ready, redis_client, redisUp, cache, live, probe>>

\* lines 79-83: the get completes.  It raises when Redis cannot be reached
\* (line 90 turns that into a 500); a hit is decoded and returned; on a miss
\* fetch_definitions is called.
DefineGetReply(r) ==
    /\ reqs[r].pc = "get"
    /\ LoopFree
    /\ IF ~redisUp
       THEN /\ reqs' = Put(r, Fail([reqs[r] EXCEPT !.cacheFailed = TRUE],
                                     RedisErrorDetail))
            /\ fetch' = fetch
       ELSE IF cache[cache_key(reqs[r].word)] # None
       THEN /\ reqs' = Put(r, Respond([reqs[r] EXCEPT !.hit = TRUE],
                                        json_loads(cache[cache_key(reqs[r].word)][1])))
            /\ fetch' = fetch
       ELSE /\ reqs' = Put(r, [reqs[r] EXCEPT !.pc = "fetch"])
            /\ fetch' = Activation(reqs[r].word, env.MERRIAM_KEY, r)
    /\ UNCHANGED <<env, upstream, phase, ready, redis_client, redisUp, cache, issued,
                   live, probe>>

\* lines 83-89: fetch_definitions has returned; with a client the result is
\* stored (await set), without one it is returned
DefineAfterFetch(r) ==
    /\ reqs[r].pc = "fetch"
    /\ fetch.pc \in {"done", "raised"}
    /\ fetch.owner = r
    /\ fetch' = FetchIdle
    /\ LET q == [reqs[r] EXCEPT !.io = @ \o fetch.gets, !.result = fetch.result]
       IN  IF fetch.pc = "raised"
           THEN reqs' = Put(r, Fail(q, "fetch_definitions raised"))
           ELSE IF redis_client # None
           THEN reqs' = Put(r, [q EXCEPT !.pc = "set", !.io = Append(@, "cache.set")])
           ELSE reqs' = Put(r, Respond(q, fetch.result))
    /\ UNCHANGED <<env, upstream, phase, ready, redis_client, redisUp, cache, issued,
                   live, probe>>

\* lines 88-91: the set completes.  It raises when Redis cannot be reached
\* (a 500); otherwise the serialized result is under the key and the result
\* is returned.
DefineSetReply(r) ==
    /\ reqs[r].pc = "set"
    /\ LoopFree
    /\ IF ~redisUp
       THEN /\ reqs' = Put(r, Fail([reqs[r] EXCEPT !.cacheFailed = TRUE],
                                     RedisErrorDetail))
            /\ UNCHANGED <<cache, live>>
       ELSE /\ reqs' = Put(r, Respond(reqs[r], reqs[r].result))
            /\ cache' = [cache EXCEPT ![cache_key(reqs[r].word)] =
                                            Some(json_dumps(reqs[r].result))]
            /\ live' = [live EXCEPT ![reqs[r].word] = Some(reqs[r].result)]
    /\ UNCHANGED <<env, upstream, phase, ready, redis_client, redisUp, issued, fetch, probe>>

\* The time-to-live of an entry (CACHE_TTL, 3600 s by default) runs out.
\* fetch_definitions touches neither the cache nor the connection to it, so
\* a change of either while it runs is the same as the change right after
\* it returned: the model takes these steps between activations only.
Expire(k) ==
    /\ LoopFree
    /\ cache[k] # None
    /\ cache' = [cache EXCEPT ![k] = None]
    /\ live' = [w \in RouteWords |-> IF cache_key(w) = k THEN None ELSE live[w]]
    /\ UNCHANGED <<env, upstream, phase, ready, redis_client, redisUp, reqs, issued,
                   fetch, probe>>

\* The Redis server becomes unreachable, or reachable again.
RedisDown ==
    /\ LoopFree
    /\ phase \in {"ping", "serving"}
    /\ redis_client # None
    /\ redisUp
    /\ redisUp' = FALSE
    /\ UNCHANGED <<env, upstream, phase, ready, redis_client, cache, reqs, issued, live,
                   fetch, probe>>

RedisBack ==
    /\ LoopFree
    /\ phase \in {"ping", "serving"}
    /\ redis_client # None
    /\ ~redisUp
    /\ redisUp' = TRUE
    /\ UNCHANGED <<env, upstream, phase, ready, redis_client, cache, reqs, issued, live,
                   fetch, probe>>

\* An outside world with stable answers that differ between words, also
\* between the spellings of one word where the source tells them apart.
CaseWorld ==
    [merriam |-> [w \in Words |-> IF w = "test" THEN MerriamFound
                                  ELSE IF w = "Test" THEN MerriamSuggestions
                                  ELSE [kind |-> "error"]],
     wordnet |-> [w \in LowerWords |->
                    IF w = "test"
                    THEN [kind |-> "ok",
                          synsets |-> <<[pos |-> "n", definition |-> "a trial"]>>]
                    ELSE [kind |-> "ok", synsets |-> <<>>]],
     easton |-> [w \in CapWords |-> IF w = "Test" THEN EastonFound
                                    ELSE [kind |-> "http", status |-> 404, page |-> NoPage]]]

ServerWorlds == {CaseWorld}

Environments ==
    [MERRIAM_KEY : {None, Some("k")},
     ALLOW_STARTUP_WITHOUT_KEY : BOOLEAN,
     CACHE_URL : {None, Some("redis://cache:6379")}]

Init ==
    /\ env \in Environments
    /\ upstream \in ServerWorlds
    /\ phase = "boot"
    /\ ready = FALSE
    /\ redis_client = None
    /\ redisUp \in BOOLEAN
    /\ cache = [k \in CacheKeys |-> None]
    /\ reqs = [r \in Slots |-> FreeSlot]
    /\ issued = 0
    /\ live = [w \in RouteWords |-> None]
    /\ fetch = FetchIdle
    /\ probe = ProbeIdle

Next ==
    \/ StartupChecks
    \/ StartupPing
    \/ \E r \in Slots, w \in RouteWords : DefineStart(r, w)
    \/ \E r \in Slots : DefineGetReply(r)
    \/ FetchBegin
    \/ FetchPron
    \/ FetchWordnet
    \/ FetchEaston
    \/ \E r \in Slots : DefineAfterFetch(r)
    \/ \E r \in Slots : DefineSetReply(r)
    \/ \E k \in CacheKeys : Expire(k)
    \/ RedisDown
    \/ RedisBack

Spec == Init /\ [][Next]_vars

-----------------------------------------------------------------------------
(* Properties of fetch_definitions (SpecFetch).                            *)

IsSequence(x) == DOMAIN x = 1..Len(x)

AllSourcesFailed ==
    /\ MerriamFailed(fetch.word, fetch.key, upstream)
    /\ WordnetFailed(fetch.word, upstream)
    /\ EastonFailed(fetch.word, upstream)

\* C1: whatever the word and the outcomes of the three sources,
\* fetch_definitions raises nothing and returns a result of the fixed shape:
\* the word, pronunciation.phonetics a sequence, definitions.wordnet a
\* sequence, definitions.easton None or one non-empty string; when all three
\* sources fail it is the all-empty result.
C1_FixedShape ==
    /\ fetch.pc # "raised"
    /\ fetch.pc = "done" =>
        /\ fetch.result.word = fetch.word
        /\ "phonetics" \in fetch.result.pronunciation.keys
        /\ IsSequence(fetch.result.pronunciation.phonetics)
        /\ IsSequence(fetch.result.definitions.wordnet)
        /\ \/ fetch.result.definitions.easton = None
           \/ /\ Len(fetch.result.definitions.easton) = 1
              /\ fetch.result.definitions.easton[1] # ""
        /\ AllSourcesFailed => fetch.result = NewResult(fetch.word)

C1_Witness == fetch.pc = "done" /\ AllSourcesFailed /\ fetch.key # None

\* the outside world with one source's answer for the word replaced
WithMerriam(up, word, x) == [up EXCEPT !.merriam[word] = x]
WithWordnet(up, word, x) == [up EXCEPT !.wordnet[Lower(word)] = x]
WithEaston(up, word, x) == [up EXCEPT !.easton[Capitalize(word)] = x]

\* C2: a failing source is not fatal and touches nothing but its own field:
\* fetch_definitions does not raise, the failing source's field keeps its
\* empty default, and the other fields are what they are under any other
\* answer of the failing source, a successful one included.
C2_IndependentFailure ==
    /\ fetch.pc # "raised"
    /\ fetch.pc = "done" =>
        LET r == fetch.result
            w == fetch.word
            k == fetch.key
        IN  /\ MerriamFailed(w, k, upstream) =>
                /\ r.pronunciation = NewResult(w).pronunciation
                /\ \A x \in MerriamSamples :
                      fetch_definitions(w, k, WithMerriam(upstream, w, x)).definitions
                          = r.definitions
            /\ WordnetFailed(w, upstream) =>
                /\ r.definitions.wordnet = <<>>
                /\ \A x \in WordnetSamples :
                      LET o == fetch_definitions(w, k, WithWordnet(upstream, w, x))
                      IN  /\ o.pronunciation = r.pronunciation
                          /\ o.definitions.easton = r.definitions.easton
            /\ EastonFailed(w, upstream) =>
                /\ r.definitions.easton = None
                /\ \A x \in EastonSamples :
                      LET o == fetch_definitions(w, k, WithEaston(upstream, w, x))
                      IN  /\ o.pronunciation = r.pronunciation
                          /\ o.definitions.wordnet = r.definitions.wordnet

C2_Witness ==
    /\ fetch.pc = "done"
    /\ WordnetFailed(fetch.word, upstream)
    /\ fetch.result.pronunciation.phonetics # <<>>
    /\ fetch.result.definitions.easton # None

IsPrefix(a, b) == Len(a) <= Len(b) /\ SubSeq(b, 1, Len(a)) = a

\* C6: in one call of fetch_definitions the three clients are called exactly
\* once each, in the order pronunciation, WordNet, Easton, whatever the
\* earlier ones returned: the calls made so far are always the first ones of
\* that order, as many as the position in the function says, and all three
\* when it returns; with a key each call is one request to its source.
C6_EachSourceOnceInOrder ==
    fetch.pc # "idle" =>
        /\ fetch.pc # "raised"
        /\ IsPrefix(fetch.calls, SourceOrder)
        /\ fetch.pc \in {"called", "merriam"} => fetch.calls = <<>>
        /\ fetch.pc = "wordnet" => Len(fetch.calls) = 1
        /\ fetch.pc = "easton" => Len(fetch.calls) = 2
        /\ fetch.pc = "done" => fetch.calls = SourceOrder
        /\ (fetch.pc = "done" /\ Truthy(fetch.key)) => fetch.gets = SourceOrder

C6_Witness ==
    /\ fetch.pc = "done"
    /\ MerriamFailed(fetch.word, fetch.key, upstream)
    /\ WordnetLookup(upstream, fetch.word) = [kind |-> "ok", synsets |-> <<>>]
    /\ fetch.calls = SourceOrder

-----------------------------------------------------------------------------
(* Properties of fetch_merriam_pronunciation (SpecPron).                   *)

\* a pronunciation item with a respelling or a sound file name
HasTextOrAudio(p) ==
    \/ (p.mw # None /\ p.mw[1] # "")
    \/ (p.sound # None /\ p.sound[1].audio # None /\ p.sound[1].audio[1] # "")

ProbePrs == PrsOf(FirstDict(probe.exchange.data.items)[1])

\* the number of items up to the i-th that have a respelling or a sound file
RankOf(prs, i) == Cardinality({j \in 1..i : HasTextOrAudio(prs[j])})

\* C9: every entry that fetch_merriam_pronunciation returns, and every entry
\* of the pronunciation the aggregator adopts from it, has "text" or "audio";
\* an item with neither yields no entry, and the k-th item that has one
\* yields the k-th entry, with that item's respelling and sound file.
C9_EntriesHaveTextOrAudio ==
    (probe.pc = "returned" /\ probe.fn = "merriam") =>
        LET ph == GetPhonetics(probe.out.value)
        IN  /\ ~probe.out.raised
            /\ \A i \in 1..Len(ph) :
                  DOMAIN ph[i] # {} /\ DOMAIN ph[i] \subseteq {"text", "audio"}
            /\ \A i \in 1..Len(probe.result.pronunciation.phonetics) :
                  DOMAIN probe.result.pronunciation.phonetics[i] # {}
            /\ probe.out.value.keys # {} =>
                  /\ Len(ph) = RankOf(ProbePrs, Len(ProbePrs))
                  /\ \A i \in 1..Len(ProbePrs) :
                        HasTextOrAudio(ProbePrs[i]) =>
                            LET e == ph[RankOf(ProbePrs, i)]
                                p == ProbePrs[i]
                            IN  /\ ("text" \in DOMAIN e) = Truthy(p.mw)
                                /\ Truthy(p.mw) => e.text = p.mw[1]
                                /\ ("audio" \in DOMAIN e) = (AudioUrl(p) # None)
                                /\ AudioUrl(p) # None => e.audio = AudioUrl(p)[1]

C9_Witness ==
    /\ probe.pc = "returned"
    /\ probe.fn = "merriam"
    /\ probe.out.value.keys # {}
    /\ Len(ProbePrs) = 2
    /\ ~HasTextOrAudio(ProbePrs[1])
    /\ HasTextOrAudio(ProbePrs[2])
    /\ Len(GetPhonetics(probe.out.value)) = 1

-----------------------------------------------------------------------------
(* Properties of fetch_easton_definition (SpecEaston).                     *)

\* the block the extractor works on, after the unwanted elements are removed
ProbeNodes == Decompose(SelectContent(probe.exchange.page)[1])

\* the extractor is on its fallback path: a block was selected and none of
\* its paragraphs qualified
OnFallbackPath ==
    /\ probe.pc = "returned"
    /\ probe.fn = "easton"
    /\ probe.exchange.kind = "http"
    /\ probe.exchange.status = 200
    /\ SelectContent(probe.exchange.page) # None
    /\ ScanParagraphs(SelectSeq(ProbeNodes, IsParagraph), probe.word) = None

\* C8: on the fallback path, a block text of more than 50 characters is
\* returned with the stripping of the paragraph path applied (the three
\* trailers, then the leading word) and cut to 500 characters, and a text
\* of at most 50 characters gives None.  Read in the claim's favour: the cut
\* may come before or after the stripping, and a text that is longer than
\* 50 characters only before its whitespace is collapsed may go either way.
C8_FallbackSameStripping ==
    OnFallbackPath =>
        LET raw == JoinTexts(ProbeNodes)
            text == CollapseWs(raw)
            stripped == {Some(Truncate(CleanParagraph(text, probe.word), FallbackMaxLen)),
                         Some(CleanParagraph(Truncate(text, FallbackMaxLen), probe.word))}
        IN  /\ Len(text) > FallbackMinLen => probe.out.value \in stripped
            /\ Len(raw) <= FallbackMinLen => probe.out.value = None
            /\ probe.out.value \in stripped \cup {None}

-----------------------------------------------------------------------------
(* Properties of the application (Spec).                                   *)

Busy(r) == reqs[r].pc # "free"
Done(r) == reqs[r].pc = "done"

\* what define returns for a word when no cache is configured
NoCacheResult(word) == fetch_definitions(word, env.MERRIAM_KEY, upstream)

\* C3: a lookup of an empty or whitespace-only word is rejected with an
\* error before any request to the provider, the database, the site or the
\* cache: no outbound request is ever made for such a word, by the handler
\* or by fetch_definitions, and its response is not a result.
C3_InvalidWordRejected ==
    /\ \A r \in Slots :
          (Busy(r) /\ IsInvalidWord(reqs[r].word)) =>
              /\ reqs[r].io = <<>>
              /\ Done(r) => reqs[r].status # 200
    /\ (fetch.pc # "idle" /\ IsInvalidWord(fetch.word)) => fetch.gets = <<>>

\* C4: with a key configured, a request during which the cache could not be
\* reached is still answered with the result it gets when no cache is
\* configured, not with an error.
C4_CacheFailureNotFatal ==
    \A r \in Slots :
        (Done(r) /\ reqs[r].cacheFailed) =>
            /\ reqs[r].status = 200
            /\ reqs[r].body = NoCacheResult(reqs[r].word)

\* C5: a request that follows a request for the same word that missed the
\* cache, fetched and stored its result, and that is served from the cache
\* within the time-to-live of that entry, calls no source and gets the
\* first request's live result as it is after json.dumps and json.loads.
C5_CacheRoundTrip ==
    \A r \in Slots :
        (Done(r) /\ reqs[r].hit /\ reqs[r].expect # None) =>
            /\ reqs[r].io = <<"cache.get">>
            /\ reqs[r].body = json_loads(json_dumps(reqs[r].expect[1]))

\* C10: every response that carries a result equals the response the same
\* request gets with no cache configured; in particular its word is the
\* word of the request.
C10_CacheTransparent ==
    \A r \in Slots :
        (Done(r) /\ reqs[r].status = 200) =>
            /\ reqs[r].body.word = reqs[r].word
            /\ reqs[r].body = NoCacheResult(reqs[r].word)

\* C7 as claimed: once startup was allowed without a key by the override
\* flag, a define request gets a well-formed result whose pronunciation is
\* the empty default.
C7_ServedWithoutKey ==
    \A r \in Slots :
        (Done(r) /\ ready /\ ~Truthy(env.MERRIAM_KEY)) =>
            /\ reqs[r].status = 200
            /\ reqs[r].body.pronunciation = NewResult(reqs[r].word).pronunciation

\* C7 amended: the key is required at startup only when the override flag is
\* not set, and by every define request regardless of the flag.  Without a
\* key and without the flag startup fails, and ready is never true and no
\* request is served; ready implies a key or the flag; and a define request
\* on a server without a key is answered 500 "MERRIAM_KEY not configured on
\* server" with no request to the cache or to a source.
C7_KeyRequiredByDefine ==
    /\ (~Truthy(env.MERRIAM_KEY) /\ ~env.ALLOW_STARTUP_WITHOUT_KEY) =>
          /\ ~ready
          /\ phase \in {"boot", "failed"}
          /\ \A r \in Slots : ~Busy(r)
    /\ ready => (Truthy(env.MERRIAM_KEY) \/ env.ALLOW_STARTUP_WITHOUT_KEY)
    /\ \A r \in Slots :
          (Busy(r) /\ ~Truthy(env.MERRIAM_KEY)) =>
              /\ Done(r)
              /\ reqs[r].status = 500
              /\ reqs[r].detail = KeyMissingDetail
              /\ reqs[r].io = <<>>
    /\ ~Truthy(env.MERRIAM_KEY) => fetch.pc = "idle"

C7_Witness ==
    /\ ready
    /\ env.ALLOW_STARTUP_WITHOUT_KEY
    /\ ~Truthy(env.MERRIAM_KEY)
    /\ \E r \in Slots : Done(r) /\ reqs[r].status = 500

=============================================================================
